---- MODULE Spec2Model ----
(***************************************************************************)
(* Model of package errprops (errors.go): immutable error decorators that   *)
(* carry key/value pairs, the cause-chain lookup Get, and the Format        *)
(* protocol.  Error values live in an append-only heap; a reference is an   *)
(* index into the heap and 0 is the nil error.                              *)
(***************************************************************************)
EXTENDS Integers, Sequences, FiniteSets, TLC

\* ---- bounds of the model ------------------------------------------------
\* number of error values a run builds
MaxErrors == 5

\* ---- value universes ----------------------------------------------------
Nil == "nil"
Keys == {"a", "b"}
Values == {"b", Nil}
\* keys asked of Get: every stored key, every stored value, and nil
QueryKeys == Keys \cup Values
FlagSets == {"", "+", "#", "+#"}
Verbs == {"v", "s"}

VARIABLES heap
vars == <<heap>>

\* ---- error values -------------------------------------------------------
\* an error that is not of this package and has no cause (errors.New, io.EOF);
\* fmtr tells whether it implements fmt.Formatter
PlainNode(f) == [kind |-> "plain", ref |-> 0, key |-> Nil, value |-> Nil, fmtr |-> f]
\* a foreign wrapper that implements only Cause() (errors.Wrap)
WrapNode(i) == [kind |-> "wrap", ref |-> i, key |-> Nil, value |-> Nil, fmtr |-> TRUE]
\* baseError{err}
BaseNode(i) == [kind |-> "base", ref |-> i, key |-> Nil, value |-> Nil, fmtr |-> TRUE]
\* &keyValueError{PropError, key, value}
KVNode(p, k, v) == [kind |-> "kv", ref |-> p, key |-> k, value |-> v, fmtr |-> TRUE]

Refs(h) == 1..Len(h)
\* Wrap and From take the newest error (From also nil): taking the newest each
\* time builds every chain of wrapped errors.  WithValue takes the newest error
\* or the receiver the newest link was built on, which builds sibling links
\* that share their suffix.
Newest(h) == IF h = <<>> THEN {} ELSE {Len(h)}
Receivers(h) ==
  Newest(h) \cup {h[i].ref : i \in {j \in Newest(h) : h[j].kind = "kv"}}

\* type assertions err.(hasCause), err.(hasProps), err.(fmt.Formatter), err.(*keyValueError)
HasCause(h, i) == i # 0 /\ h[i].kind \in {"wrap", "base", "kv"}
HasProps(h, i) == i # 0 /\ h[i].kind \in {"base", "kv"}
IsFormatter(h, i) == i # 0 /\ h[i].fmtr
IsKeyValueError(h, i) == i # 0 /\ h[i].kind = "kv"
IsPropError(h, i) == HasProps(h, i)

NotFound == [val |-> Nil, ok |-> FALSE]
Found(v) == [val |-> v, ok |-> TRUE]

RECURSIVE CauseOf(_, _)
RECURSIVE NodeGet(_, _, _)
RECURSIVE Get(_, _, _)
RECURSIVE Format(_, _, _, _)
RECURSIVE formatInner(_, _, _, _)
RECURSIVE formatBaseError(_, _, _, _)

\* ---- Cause --------------------------------------------------------------
\* variant: hands back the wrapped error itself instead of the wrapped error's cause
baseCauseReturnsWrapped(h, i) ==
  IF HasCause(h, h[i].ref) THEN h[i].ref ELSE 0

baseCause(h, i) ==
  IF HasCause(h, h[i].ref) THEN CauseOf(h, h[i].ref) ELSE 0

\* method Cause() by dynamic type; keyValueError promotes the embedded PropError's
CauseOf(h, i) ==
  CASE h[i].kind = "wrap" -> h[i].ref
    [] h[i].kind = "base" -> baseCause(h, i)
    [] h[i].kind = "kv"   -> CauseOf(h, h[i].ref)
    [] OTHER              -> 0

\* ---- node-local Get -----------------------------------------------------
\* variant: a Base that never forwards the lookup to the wrapped error
baseGetAlwaysAbsent(h, i, key) == NotFound

\* variant: a Base whose local lookup walks the wrapped error's cause chain
baseGetThroughCauses(h, i, key) == Get(h, h[i].ref, key)

baseGet(h, i, key) ==
  IF HasProps(h, h[i].ref) THEN NodeGet(h, h[i].ref, key) ELSE NotFound

\* variant: the predecessor is consulted before the link's own pair
kvGetOldestFirst(h, i, key) ==
  IF NodeGet(h, h[i].ref, key).ok THEN NodeGet(h, h[i].ref, key)
  ELSE IF key = h[i].key THEN Found(h[i].value) ELSE NotFound

\* variant: the lookup key is also matched against the stored value
kvGetMatchesValue(h, i, key) ==
  IF key = h[i].key \/ key = h[i].value THEN Found(h[i].value)
  ELSE NodeGet(h, h[i].ref, key)

kvGet(h, i, key) ==
  IF key = h[i].key THEN Found(h[i].value) ELSE NodeGet(h, h[i].ref, key)

\* method Get(key) by dynamic type
NodeGet(h, i, key) ==
  IF h[i].kind = "kv" THEN kvGet(h, i, key) ELSE baseGet(h, i, key)

\* ---- package-level Get --------------------------------------------------
\* variant: the cause is searched before the error's own properties
RECURSIVE GetCauseFirst(_, _, _)
GetCauseFirst(h, err, key) ==
  IF err = 0 THEN NotFound
  ELSE IF HasCause(h, err) /\ GetCauseFirst(h, CauseOf(h, err), key).ok
    THEN GetCauseFirst(h, CauseOf(h, err), key)
  ELSE IF HasProps(h, err) /\ NodeGet(h, err, key).ok THEN Found(NodeGet(h, err, key).val)
  ELSE NotFound

\* variant: the cause is only searched when the error has no properties of its own
RECURSIVE GetPropsOrCause(_, _, _)
GetPropsOrCause(h, err, key) ==
  IF err = 0 THEN NotFound
  ELSE IF HasProps(h, err) THEN NodeGet(h, err, key)
  ELSE IF HasCause(h, err) THEN GetPropsOrCause(h, CauseOf(h, err), key)
  ELSE NotFound

Get(h, err, key) ==
  IF err = 0 THEN NotFound
  ELSE IF HasProps(h, err) /\ NodeGet(h, err, key).ok THEN Found(NodeGet(h, err, key).val)
  ELSE IF HasCause(h, err) THEN Get(h, CauseOf(h, err), key)
  ELSE NotFound

GetOptional(h, err, key) ==
  IF Get(h, err, key).ok THEN Get(h, err, key).val ELSE Nil

\* ---- Format --------------------------------------------------------------
\* The output written to the fmt.State is a sequence of tokens:
\*   Lit(s)        the literal text s
\*   Arg(d, x)     operand x rendered by fmt under the directive d ("%+v", ...)
\*   Fwd(e, fl, c) foreign error e formatting itself, called with flags fl, verb c
\*   Dflt(e)       fmt.Fprint of error e (0 is the nil error): default form
Lit(s) == [tok |-> "lit", fmt |-> s, val |-> Nil, err |-> 0]
Arg(d, x) == [tok |-> "arg", fmt |-> d, val |-> x, err |-> 0]
Fwd(e, fl, c) == [tok |-> "fwd", fmt |-> fl \o c, val |-> Nil, err |-> e]
Dflt(e) == [tok |-> "print", fmt |-> "", val |-> Nil, err |-> e]

\* f.Flag('+'), f.Flag('#')
Flag(fl, ch) == IF ch = "+" THEN fl \in {"+", "+#"} ELSE fl \in {"#", "+#"}

\* the directive formatInner builds for keys and values
Directive(fl, c) ==
  "%" \o (IF Flag(fl, "+") THEN "+" ELSE IF Flag(fl, "#") THEN "#" ELSE "") \o c

baseFormatBaseError(h, i, fl, c) ==
  IF IsFormatter(h, h[i].ref)
    THEN IF IsPropError(h, h[i].ref) THEN Format(h, h[i].ref, fl, c)
                                     ELSE <<Fwd(h[i].ref, fl, c)>>
    ELSE <<Dflt(h[i].ref)>>

\* method formatBaseError by dynamic type
formatBaseError(h, i, fl, c) ==
  IF h[i].kind = "kv" THEN formatBaseError(h, h[i].ref, fl, c)
                      ELSE baseFormatBaseError(h, i, fl, c)

formatInner(h, i, fl, c) ==
  <<Arg(Directive(fl, c), h[i].key), Lit("="), Arg(Directive(fl, c), h[i].value)>>
    \o (IF IsKeyValueError(h, h[i].ref)
          THEN <<Lit(",")>> \o formatInner(h, h[i].ref, fl, c)
          ELSE <<>>)

\* variant: the link prints its own pair and lets the predecessor format itself
kvFormatViaPredecessor(h, i, fl, c) ==
  <<Lit("["), Arg(Directive(fl, c), h[i].key), Lit("="), Arg(Directive(fl, c), h[i].value), Lit("] ")>>
    \o Format(h, h[i].ref, fl, c)

kvFormat(h, i, fl, c) ==
  <<Lit("[")>> \o formatInner(h, i, fl, c) \o <<Lit("] ")>> \o formatBaseError(h, i, fl, c)

baseFormat(h, i, fl, c) == formatBaseError(h, i, fl, c)

\* method Format by dynamic type
Format(h, i, fl, c) ==
  IF h[i].kind = "kv" THEN kvFormat(h, i, fl, c) ELSE baseFormat(h, i, fl, c)

\* ---- constructors -------------------------------------------------------
FromErr(h, err) == Append(h, BaseNode(err))
baseWithValue(h, i, key, value) == Append(h, KVNode(i, key, value))
\* variant: the receiver is overwritten in place before the new link is returned
kvWithValueInPlace(h, i, key, value) ==
  Append([h EXCEPT ![i].key = key, ![i].value = value], KVNode(i, key, value))

kvWithValue(h, i, key, value) == Append(h, KVNode(i, key, value))

\* ---- actions ------------------------------------------------------------
Init == heap = <<>>

\* a foreign error without a cause comes into being (errors.New, io.EOF)
New(f) ==
  /\ Len(heap) < MaxErrors
  /\ heap' = Append(heap, PlainNode(f))

Wrap(i) ==
  /\ Len(heap) < MaxErrors
  /\ heap' = Append(heap, WrapNode(i))

From(err) ==
  /\ Len(heap) < MaxErrors
  /\ heap' = FromErr(heap, err)

WithValue(i, key, value) ==
  /\ IsPropError(heap, i)
  /\ Len(heap) < MaxErrors
  /\ heap' = IF heap[i].kind = "kv" THEN kvWithValue(heap, i, key, value)
                                    ELSE baseWithValue(heap, i, key, value)

Next ==
  \/ \E f \in BOOLEAN : New(f)
  \/ \E i \in Newest(heap) : Wrap(i)
  \/ \E err \in {0} \cup Newest(heap) : From(err)
  \/ \E i \in Receivers(heap), key \in Keys, value \in Values : WithValue(i, key, value)

Spec == Init /\ [][Next]_vars

\* ---- vocabulary of the properties ---------------------------------------
\* the links of i's decoration chain, newest first, down to the first Base
RECURSIVE ChainLinks(_, _)
ChainLinks(h, i) ==
  IF h[i].kind = "kv" THEN <<i>> \o ChainLinks(h, h[i].ref) ELSE <<>>

\* the Base that ends i's decoration chain
RECURSIVE ChainBase(_, _)
ChainBase(h, i) == IF h[i].kind = "kv" THEN ChainBase(h, h[i].ref) ELSE i

\* the link of i's decoration chain nearest to i that carries key (0: none)
NearestLink(h, i, key) ==
  LET links == ChainLinks(h, i)
      hits == {n \in 1..Len(links) : h[links[n]].key = key}
  IN IF hits = {} THEN 0 ELSE links[CHOOSE n \in hits : \A m \in hits : n <= m]

\* the errors strictly below i on its cause chain
RECURSIVE CauseAncestors(_, _)
CauseAncestors(h, i) ==
  IF HasCause(h, i) /\ CauseOf(h, i) # 0
    THEN {CauseOf(h, i)} \cup CauseAncestors(h, CauseOf(h, i))
    ELSE {}

\* every key stored by a link reachable from err (decoration, wrapped and cause chains)
RECURSIVE KeysBelow(_, _)
KeysBelow(h, err) ==
  IF err = 0 THEN {}
  ELSE (IF h[err].kind = "kv" THEN {h[err].key} ELSE {}) \cup KeysBelow(h, h[err].ref)

\* the error found under a stack of has-cause-only wrappers, and the stack's height
RECURSIVE StripWraps(_, _)
StripWraps(h, i) == IF i # 0 /\ h[i].kind = "wrap" THEN StripWraps(h, h[i].ref) ELSE i
RECURSIVE WrapDepth(_, _)
WrapDepth(h, i) == IF i # 0 /\ h[i].kind = "wrap" THEN 1 + WrapDepth(h, h[i].ref) ELSE 0

\* the pairs of a list of links rendered under directive d and joined by ","
RECURSIVE JoinPairs(_, _, _)
JoinPairs(h, links, d) ==
  IF links = <<>> THEN <<>>
  ELSE <<Arg(d, h[Head(links)].key), Lit("="), Arg(d, h[Head(links)].value)>>
         \o (IF Len(links) > 1 THEN <<Lit(",")>> ELSE <<>>)
         \o JoinPairs(h, Tail(links), d)

PropErrors == {i \in Refs(heap) : IsPropError(heap, i)}
Links == {i \in Refs(heap) : heap[i].kind = "kv"}
Bases == {i \in Refs(heap) : heap[i].kind = "base"}

\* C1: within one decoration chain the link nearest the queried node decides:
\* for every PropError x and key k carried by a link of x's chain, x.Get(k) and
\* Get(x, k) both return (value of the nearest such link, true); in particular
\* y.WithValue(k, v) answers (v, true) for k whatever y holds.
C1_NewestWins ==
  \A x \in PropErrors : \A k \in Keys :
    /\ NearestLink(heap, x, k) # 0 =>
         /\ NodeGet(heap, x, k) = Found(heap[NearestLink(heap, x, k)].value)
         /\ Get(heap, x, k) = Found(heap[NearestLink(heap, x, k)].value)
    /\ (heap[x].kind = "kv" /\ heap[x].key = k) =>
         /\ NodeGet(heap, x, k) = Found(heap[x].value)
         /\ Get(heap, x, k) = Found(heap[x].value)

C1_Witness ==
  \E x \in Links : \E y \in Links :
    /\ heap[x].ref = y
    /\ heap[x].key = heap[y].key
    /\ heap[x].value # heap[y].value
    /\ Get(heap, x, heap[x].key) = Found(heap[x].value)

\* C2: shadowing across the cause chain: when an outer PropError carries k in
\* its own decoration chain and an inner PropError on its cause chain carries k
\* too, Get(outer, k) is the outer value and Get(inner, k) is the inner value.
C2_OuterShadowsCause ==
  \A outer \in PropErrors : \A inner \in CauseAncestors(heap, outer) : \A k \in Keys :
    (/\ IsPropError(heap, inner)
     /\ NearestLink(heap, outer, k) # 0
     /\ NearestLink(heap, inner, k) # 0) =>
       /\ Get(heap, outer, k) = Found(heap[NearestLink(heap, outer, k)].value)
       /\ Get(heap, inner, k) = Found(heap[NearestLink(heap, inner, k)].value)

C2_Witness ==
  \E outer \in PropErrors : \E inner \in CauseAncestors(heap, outer) : \E k \in Keys :
    /\ IsPropError(heap, inner)
    /\ NearestLink(heap, outer, k) # 0
    /\ NearestLink(heap, inner, k) # 0
    /\ heap[NearestLink(heap, outer, k)].value # heap[NearestLink(heap, inner, k)].value
    /\ Get(heap, outer, k) # Get(heap, inner, k)

\* C3: WithValue is non-destructive: no step changes an existing error value,
\* nor the node-local Get, the package Get or the Cause of an existing error.
C3_NonDestructive ==
  [][/\ Len(heap') >= Len(heap)
     /\ \A i \in Refs(heap) :
          /\ heap'[i] = heap[i]
          /\ CauseOf(heap', i) = CauseOf(heap, i)
          /\ \A k \in QueryKeys :
               /\ Get(heap', i, k) = Get(heap, i, k)
               /\ IsPropError(heap, i) => NodeGet(heap', i, k) = NodeGet(heap, i, k)]_vars

\* two sibling links built on the same receiver, which hold different values
\* for one key and each still answer with their own
C3_Witness ==
  \E a \in Links : \E b \in Links :
    /\ a < b
    /\ heap[a].ref = heap[b].ref
    /\ heap[a].key = heap[b].key
    /\ heap[a].value # heap[b].value
    /\ NodeGet(heap, a, heap[a].key) = Found(heap[a].value)
    /\ NodeGet(heap, b, heap[b].key) = Found(heap[b].value)

\* C4: a pair set on a PropError below any stack of has-cause-only wrappers is
\* found by Get from the top of the stack, and also from From(top of stack).
C4_ThroughWrappers ==
  \A top \in Refs(heap) : \A k \in Keys :
    LET p == StripWraps(heap, top) IN
      (/\ heap[top].kind = "wrap"
       /\ IsPropError(heap, p)
       /\ NearestLink(heap, p, k) # 0) =>
         /\ Get(heap, top, k) = Found(heap[NearestLink(heap, p, k)].value)
         /\ \A b \in Bases : heap[b].ref = top =>
              Get(heap, b, k) = Found(heap[NearestLink(heap, p, k)].value)

\* two stacked wrappers over a link, queried through a Base on top
C4_Witness ==
  \E top \in Refs(heap) : \E b \in Bases :
    /\ WrapDepth(heap, top) >= 2
    /\ heap[StripWraps(heap, top)].kind = "kv"
    /\ heap[b].ref = top
    /\ Get(heap, b, heap[StripWraps(heap, top)].key).ok

\* C5: a key stored by no link reachable from e is not found: Get(e, k) and,
\* for every Base b = From(e), Get(b, k) and b.Get(k) return (nil, false);
\* e may be nil and k may equal a stored value.
C5_NotFound ==
  /\ \A k \in QueryKeys : Get(heap, 0, k) = NotFound
  /\ \A e \in Refs(heap) : \A k \in QueryKeys :
       k \notin KeysBelow(heap, e) =>
         /\ Get(heap, e, k) = NotFound
         /\ IsPropError(heap, e) => NodeGet(heap, e, k) = NotFound
         /\ GetOptional(heap, e, k) = Nil

\* a link whose value is asked for as a key, and a Base made from nil
C5_Witness ==
  /\ \E x \in Links :
       /\ heap[x].value \notin KeysBelow(heap, x)
       /\ heap[x].value \in Keys
       /\ Get(heap, x, heap[x].value) = NotFound
  /\ \E b \in Bases : heap[b].ref = 0

\* C6: Cause() of a PropError with any number of links is the wrapped error's
\* own cause when the wrapped error has a cause, and nil otherwise.
C6_CausePassThrough ==
  \A x \in PropErrors :
    LET e == heap[ChainBase(heap, x)].ref IN
      CauseOf(heap, x) =
        IF e = 0 \/ heap[e].kind = "plain" THEN 0
        ELSE IF heap[e].kind = "wrap" THEN heap[e].ref
        ELSE CauseOf(heap, e)

\* two links over From(wrapper): the cause is what the wrapper wraps
C6_Witness ==
  \E x \in Links :
    LET e == heap[ChainBase(heap, x)].ref IN
      /\ Len(ChainLinks(heap, x)) >= 2
      /\ e # 0 /\ heap[e].kind = "wrap"
      /\ CauseOf(heap, x) = heap[e].ref

\* C7: Format of a link writes one bracket section, "[" then the pairs of every
\* link of its chain newest first joined by "," then "] ", followed by exactly
\* what the Base at the end of the chain writes for the wrapped error.
C7_OneBracketSection ==
  \A x \in Links : \A fl \in FlagSets : \A c \in Verbs :
    Format(heap, x, fl, c) =
      <<Lit("[")>> \o JoinPairs(heap, ChainLinks(heap, x), Directive(fl, c))
        \o <<Lit("] ")>> \o Format(heap, ChainBase(heap, x), fl, c)

\* two stacked links over a foreign error: one "[" in the whole output
C7_Witness ==
  \E x \in Links :
    /\ Len(ChainLinks(heap, x)) >= 2
    /\ ~IsPropError(heap, heap[ChainBase(heap, x)].ref)
    /\ Cardinality({n \in 1..Len(Format(heap, x, "", "v")) :
                      Format(heap, x, "", "v")[n] = Lit("[")}) = 1

\* C8: for each of the four combinations of '+' and '#', every key and value
\* is rendered under a directive carrying exactly that combination, and a
\* wrapped error that formats itself is called with exactly that combination.
C8_FlagsUniform ==
  \A x \in Links : \A fl \in FlagSets : \A c \in Verbs :
    \A n \in 1..Len(Format(heap, x, fl, c)) :
      LET t == Format(heap, x, fl, c)[n] IN
        /\ t.tok = "arg" => t.fmt = "%" \o fl \o c
        /\ t.tok = "fwd" => t.fmt = fl \o c

\* C9 as stated: the node-local Get of a Base finds nothing, whatever it wraps
C9_BaseGetAlwaysAbsent ==
  \A b \in Bases : \A k \in QueryKeys : NodeGet(heap, b, k) = NotFound

\* C9 amended: the node-local Get of a Base finds nothing when the wrapped
\* error has no local properties (nil, plain error, has-cause-only wrapper);
\* when the wrapped error is a PropError it returns what that PropError's own
\* node-local Get returns, so the nearest link of the wrapped chain decides.
C9_BaseGetForwards ==
  \A b \in Bases : \A k \in QueryKeys :
    LET e == heap[b].ref IN
      IF e = 0 \/ heap[e].kind \in {"plain", "wrap"}
        THEN NodeGet(heap, b, k) = NotFound
        ELSE /\ NodeGet(heap, b, k) = NodeGet(heap, e, k)
             /\ NearestLink(heap, e, k) # 0 =>
                  NodeGet(heap, b, k) = Found(heap[NearestLink(heap, e, k)].value)

\* a Base over a link: its node-local Get finds the link's pair
C9_Witness ==
  \E b \in Bases :
    /\ heap[b].ref # 0 /\ heap[heap[b].ref].kind = "kv"
    /\ NodeGet(heap, b, heap[heap[b].ref].key) = Found(heap[heap[b].ref].value)
    /\ \E k \in QueryKeys : NodeGet(heap, b, k) = NotFound

\* C10: wrapping with From does not change lookups: Get(From(e), k) = Get(e, k)
\* for every error e (nil included) and every key k.
C10_FromPreservesGet ==
  \A b \in Bases : \A k \in QueryKeys : Get(heap, b, k) = Get(heap, heap[b].ref, k)

\* a Base over a link, and the link's key is found through the Base
C10_Witness ==
  \E b \in Bases :
    /\ heap[b].ref # 0 /\ heap[heap[b].ref].kind = "kv"
    /\ Get(heap, b, heap[heap[b].ref].key) = Found(heap[heap[b].ref].value)
====
